---- MODULE Spec2Model ----
(***************************************************************************)
(* Command-execution engine of yesser-todo-cli.                            *)
(*                                                                         *)
(* The model is a session of Command::execute calls (cli/.../args.rs)      *)
(* against one backend handle: either the in-memory Vec<Task> `data`       *)
(* (client = None, handlers of command_impl.rs) or the HTTP server         *)
(* (client = Some, handlers of command_impl_cloud.rs talking through       *)
(* api/src/lib.rs to server/src/functions.rs).                             *)
(*                                                                         *)
(* Spec drives execute directly, call after call on one handle, as a       *)
(* caller of the engine does.  MainSpec is the program: every invocation   *)
(* of main (cli/.../main.rs) loads the task file, chooses the backend from *)
(* the saved connection configuration, executes one command and, after a   *)
(* success, a follow-up List.                                              *)
(*                                                                         *)
(* A local handler is one atomic action.  A remote handler is a sequence   *)
(* of actions, one per HTTP round trip; every round trip may succeed, be   *)
(* answered with a non-success status, or fail in the transport before or  *)
(* after the server has processed it.                                      *)
(*                                                                         *)
(* Positions are 0-based as in the source; an Option<usize> is <<>> (None) *)
(* or <<i>> (Some(i)).                                                     *)
(*                                                                         *)
(* Sequences are built as tuples and the fields of every record are        *)
(* written in the order of their first occurrence in this module, the      *)
(* order TLC keeps them in, so that no value is rearranged after it is     *)
(* shared between TLC's workers.                                           *)
(***************************************************************************)
EXTENDS Naturals, Integers, Sequences, FiniteSets, TLC

VARIABLES
    data,       \* the Vec<Task> handed to execute (local collection)
    server,     \* the task list persisted by the server
    client,     \* "None" | "Some": the Option<Client> handed to execute
    pc,         \* "idle" | "validate" | "mutate" | "indexed" | "done"
    cmd,        \* the command being executed: [op, tasks, done]
    i,          \* position (1-based) of the loop of the running cloud handler
    seen,       \* the HashSet `seen` of the validation loop
    index,      \* the index Client::remove/done/undone holds between its two requests
    result,     \* the Result returned by execute
    data0,      \* history: data when the command was called
    server0,    \* history: server when the command was called
    sent,       \* history: the requests this command has sent, in order
    flight,     \* the requests the client has sent and that are not answered yet: <<endpoint, argument>>
    faults,     \* history: number of round trips of this command that failed outside the server's handlers
    file,       \* the task file todos.json: <<>> (no file) or <<contents>>
    config,     \* the configuration file cloud.json: <<>> (no file) or <<contents>>
    main,       \* position of main: "none" (execute is driven directly) | "command" | "list" | "exit"
    config0,    \* history: config when the invocation started
    log,        \* history: the calls of execute of this invocation that have returned
    errs,       \* the errors this invocation has printed to standard error
    rival,      \* a second client of the server: "none" | "idle" | "done", or in
                \* its own Add: the name it found absent | "added"
    bound,      \* hostname and port of the Client of this invocation, <<>> without one
    scene,      \* a scripted session: <<number of its commands that have returned, task name>>, or <<>>
    prev        \* history: how the invocation before this one left the configuration

proc == <<file, main, config0, log, errs, rival, bound, prev, scene>>
vars == <<data, server, client, pc, cmd, i, seen, index, result, data0, server0, sent, faults,
          config, proc, flight>>

(***************************************************************************)
(* Bounds of the model                                                     *)
(***************************************************************************)
Names == {"a", "b", "c"}     \* task names of a local session
CloudNames == {"a", "b"}     \* task names of a remote session
MaxTasks == 2       \* longest task list of an initial state
MaxBatch == 3       \* longest list of names of a request

\* the sequences over S of length n, and of length at most n, built as tuples
RECURSIVE SeqsOfLen(_, _)
SeqsOfLen(S, n) ==
    IF n = 0 THEN {<<>>}
    ELSE {Append(s, x) : s \in SeqsOfLen(S, n - 1), x \in S}

SeqsUpTo(S, n) == UNION {SeqsOfLen(S, k) : k \in 0..n}

\* db/src/lib.rs Task {name, done}
Task(n, d) == [name |-> n, done |-> d]
Tasks == {Task(n, d) : n \in Names, d \in BOOLEAN}
Stores == SeqsUpTo(Tasks, MaxTasks)
Batches == SeqsUpTo(Names, MaxBatch)
CloudStores == SeqsUpTo({Task(n, d) : n \in CloudNames, d \in BOOLEAN}, MaxTasks)
CloudBatches == SeqsUpTo(CloudNames, MaxBatch)
MainTasks == 1      \* longest task list of the initial state of an invocation of main
MainBatch == 1      \* longest list of names of a request given to main
MainStores == SeqsUpTo({Task(n, d) : n \in CloudNames, d \in BOOLEAN}, MainTasks)
Hosts == {"h"}              \* host names given to connect
Ports == {<<>>, <<"80">>}   \* the Option<String> port given to connect
IoOutcomes == {"ok", "denied"}   \* a file operation succeeds or the file system refuses it

(***************************************************************************)
(* CommandError (command_error.rs) and the Result of execute               *)
(***************************************************************************)
Ok == [name |-> "", kind |-> "Ok", status |-> 0]
NoTasksSpecified == [name |-> "", kind |-> "NoTasksSpecified", status |-> 0]
TaskExists(n) == [name |-> n, kind |-> "TaskExists", status |-> 0]
TaskNotFound(n) == [name |-> n, kind |-> "TaskNotFound", status |-> 0]
DuplicateInput(n) == [name |-> n, kind |-> "DuplicateInput", status |-> 0]
HTTPError(n, s) == [name |-> n, kind |-> "HTTPError", status |-> s]
ConnectionError(n) == [name |-> n, kind |-> "ConnectionError", status |-> 0]
\* DataError {what, err}: `what` stands in the name field, the cause is left out
DataError(what) == [name |-> what, kind |-> "DataError", status |-> 0]
UnlinkedError == [name |-> "", kind |-> "UnlinkedError", status |-> 0]

(***************************************************************************)
(* Task Identity Resolver (db/src/lib.rs)                                  *)
(***************************************************************************)
exactly_matches(task, query_string) == task.name = query_string

\* a resolver that returns the last matching position
get_index_last(tasks, query_string) ==
    IF \E k \in 1..Len(tasks) : exactly_matches(tasks[k], query_string)
    THEN LET k == CHOOSE k \in 1..Len(tasks) :
                      /\ exactly_matches(tasks[k], query_string)
                      /\ \A j \in (k + 1)..Len(tasks) : ~exactly_matches(tasks[j], query_string)
         IN  <<k - 1>>
    ELSE <<>>

\* tasks.iter().position(..): the first matching position, 0-based
get_index(tasks, query_string) ==
    IF \E k \in 1..Len(tasks) : exactly_matches(tasks[k], query_string)
    THEN LET k == CHOOSE k \in 1..Len(tasks) :
                      /\ exactly_matches(tasks[k], query_string)
                      /\ \A j \in 1..(k - 1) : ~exactly_matches(tasks[j], query_string)
         IN  <<k - 1>>
    ELSE <<>>

\* a removal that takes the index as 1-based
vec_remove_one_based(v, idx) == SubSeq(v, 1, idx - 1) \o SubSeq(v, idx + 1, Len(v))

\* Vec::remove(index), index 0-based and in range
vec_remove(v, idx) == SubSeq(v, 1, idx) \o SubSeq(v, idx + 2, Len(v))

\* a marking that ignores the requested value
vec_set_done_true(v, idx, done) == [v EXCEPT ![idx + 1].done = TRUE]

\* a marking that flips the flag
vec_set_done_toggle(v, idx, done) == [v EXCEPT ![idx + 1].done = ~@]

\* v[index].done = done
vec_set_done(v, idx, done) == [v EXCEPT ![idx + 1].done = done]

\* Vec::retain(|t| !t.done)
NotDone(t) == ~t.done
\* a retain with the predicate inverted
vec_retain_done(v) == SelectSeq(v, LAMBDA t : t.done)

vec_retain_not_done(v) == SelectSeq(v, NotDone)

(***************************************************************************)
(* Local Executor (cli/src/bin/todo/command_impl.rs)                       *)
(* Every handler is a function from (request, data) to                     *)
(* [res: the Result, data: the collection afterwards].                     *)
(***************************************************************************)

\* a validation loop that does not look the name up in the collection
RECURSIVE add_validate_batch_only(_, _, _, _)
add_validate_batch_only(tasks, d, k, sn) ==
    IF k > Len(tasks) THEN Ok
    ELSE IF tasks[k] \in sn THEN DuplicateInput(tasks[k])
    ELSE add_validate_batch_only(tasks, d, k + 1, sn \cup {tasks[k]})

\* handle_add, validation loop (lines 31-38) from position k
RECURSIVE add_validate(_, _, _, _)
add_validate(tasks, d, k, sn) ==
    IF k > Len(tasks) THEN Ok
    ELSE IF tasks[k] \in sn THEN DuplicateInput(tasks[k])
    ELSE IF \E x \in 1..Len(d) : d[x].name = tasks[k] THEN TaskExists(tasks[k])
    ELSE add_validate(tasks, d, k + 1, sn \cup {tasks[k]})

\* an insertion loop that puts each new task at the front
RECURSIVE add_push_front(_, _, _)
add_push_front(tasks, d, k) ==
    IF k > Len(tasks) THEN d
    ELSE add_push_front(tasks, <<Task(tasks[k], FALSE)>> \o d, k + 1)

\* handle_add, insertion loop (lines 40-46) from position k
RECURSIVE add_push(_, _, _)
add_push(tasks, d, k) ==
    IF k > Len(tasks) THEN d
    ELSE add_push(tasks, Append(d, Task(tasks[k], FALSE)), k + 1)

\* A handle_add that checks and inserts name by name (as old_main did).
RECURSIVE add_interleaved(_, _, _, _)
add_interleaved(tasks, d, k, sn) ==
    IF k > Len(tasks) THEN [data |-> d, res |-> Ok]
    ELSE IF tasks[k] \in sn THEN [data |-> d, res |-> DuplicateInput(tasks[k])]
    ELSE IF \E x \in 1..Len(d) : d[x].name = tasks[k]
         THEN [data |-> d, res |-> TaskExists(tasks[k])]
    ELSE add_interleaved(tasks, Append(d, Task(tasks[k], FALSE)), k + 1, sn \cup {tasks[k]})

handle_add_interleaved(tasks, d) ==
    IF Len(tasks) = 0 THEN [data |-> d, res |-> NoTasksSpecified]
    ELSE add_interleaved(tasks, d, 1, {})

handle_add(tasks, d) ==
    IF Len(tasks) = 0 THEN [data |-> d, res |-> NoTasksSpecified]
    ELSE LET v == add_validate(tasks, d, 1, {})
         IN  IF v # Ok THEN [data |-> d, res |-> v]
             ELSE [data |-> add_push(tasks, d, 1), res |-> Ok]

\* a validation that looks for a repeated name in the whole batch first
RECURSIVE exist_validate_repeats_first(_, _, _, _)
exist_validate_repeats_first(tasks, d, k, sn) ==
    IF k > Len(tasks) THEN Ok
    ELSE IF k = 1 /\ \E a \in 1..Len(tasks) : \E b \in 1..(a - 1) : tasks[a] = tasks[b]
         THEN DuplicateInput(tasks[CHOOSE a \in 1..Len(tasks) :
                  /\ \E b \in 1..(a - 1) : tasks[a] = tasks[b]
                  /\ \A c \in 1..(a - 1) : \A b \in 1..(c - 1) : tasks[c] # tasks[b]])
    ELSE IF tasks[k] \in sn THEN DuplicateInput(tasks[k])
    ELSE IF get_index(d, tasks[k]) = <<>> THEN TaskNotFound(tasks[k])
    ELSE exist_validate_repeats_first(tasks, d, k + 1, sn \cup {tasks[k]})

\* handle_remove / handle_done_undone, validation loop (lines 78-85, 155-162)
RECURSIVE exist_validate(_, _, _, _)
exist_validate(tasks, d, k, sn) ==
    IF k > Len(tasks) THEN Ok
    ELSE IF tasks[k] \in sn THEN DuplicateInput(tasks[k])
    ELSE IF get_index(d, tasks[k]) = <<>> THEN TaskNotFound(tasks[k])
    ELSE exist_validate(tasks, d, k + 1, sn \cup {tasks[k]})

\* a removal loop that resolves every position once, before the first removal
RECURSIVE remove_at_all(_, _, _)
remove_at_all(ixs, d, k) ==
    IF k > Len(ixs) THEN d
    ELSE IF ixs[k] # <<>> /\ ixs[k][1] < Len(d)
         THEN remove_at_all(ixs, vec_remove(d, ixs[k][1]), k + 1)
         ELSE remove_at_all(ixs, d, k + 1)

remove_each_stale(tasks, d, k) ==
    remove_at_all([j \in 1..Len(tasks) |-> get_index(d, tasks[j])], d, k)

\* handle_remove, removal loop (lines 87-91) from position k
RECURSIVE remove_each(_, _, _)
remove_each(tasks, d, k) ==
    IF k > Len(tasks) THEN d
    ELSE LET ix == get_index(d, tasks[k])
         IN  IF ix # <<>> THEN remove_each(tasks, vec_remove(d, ix[1]), k + 1)
             ELSE remove_each(tasks, d, k + 1)

\* a handle_remove that checks and removes name by name
RECURSIVE remove_interleaved(_, _, _, _)
remove_interleaved(tasks, d, k, sn) ==
    IF k > Len(tasks) THEN [data |-> d, res |-> Ok]
    ELSE IF tasks[k] \in sn THEN [data |-> d, res |-> DuplicateInput(tasks[k])]
    ELSE IF get_index(d, tasks[k]) = <<>> THEN [data |-> d, res |-> TaskNotFound(tasks[k])]
    ELSE remove_interleaved(tasks, vec_remove(d, get_index(d, tasks[k])[1]), k + 1,
                            sn \cup {tasks[k]})

handle_remove_interleaved(tasks, d) ==
    IF Len(tasks) = 0 THEN [data |-> d, res |-> NoTasksSpecified]
    ELSE remove_interleaved(tasks, d, 1, {})

handle_remove(tasks, d) ==
    IF Len(tasks) = 0 THEN [data |-> d, res |-> NoTasksSpecified]
    ELSE LET v == exist_validate(tasks, d, 1, {})
         IN  IF v # Ok THEN [data |-> d, res |-> v]
             ELSE [data |-> remove_each(tasks, d, 1), res |-> Ok]

\* a marking loop that sets the flag of every task of the collection
mark_each_all(tasks, d, done, k) ==
    IF k > Len(tasks) THEN d
    ELSE [x \in 1..Len(d) |-> Task(d[x].name, done)]

\* handle_done_undone, marking loop (lines 164-168) from position k
RECURSIVE mark_each(_, _, _, _)
mark_each(tasks, d, done, k) ==
    IF k > Len(tasks) THEN d
    ELSE LET ix == get_index(d, tasks[k])
         IN  IF ix # <<>> THEN mark_each(tasks, vec_set_done(d, ix[1], done), done, k + 1)
             ELSE mark_each(tasks, d, done, k + 1)

handle_done_undone(tasks, d, done) ==
    IF Len(tasks) = 0 THEN [data |-> d, res |-> NoTasksSpecified]
    ELSE LET v == exist_validate(tasks, d, 1, {})
         IN  IF v # Ok THEN [data |-> d, res |-> v]
             ELSE [data |-> mark_each(tasks, d, done, 1), res |-> Ok]

\* a clear with the two branches exchanged
handle_clear_swapped(done, d) ==
    IF done THEN [data |-> <<>>, res |-> Ok]
    ELSE [data |-> vec_retain_not_done(d), res |-> Ok]

handle_clear(done, d) ==
    IF done THEN [data |-> vec_retain_not_done(d), res |-> Ok]
    ELSE [data |-> <<>>, res |-> Ok]

\* a deprecated command that clears every task
handle_clear_done_all(d) == handle_clear(FALSE, d)

handle_clear_done(d) == handle_clear(TRUE, d)

handle_list(d) == [data |-> d, res |-> Ok]

(***************************************************************************)
(* Persistence of tasks and of the connection configuration (db/src/lib.rs)*)
(***************************************************************************)
\* the contents of todos.json: a list of tasks, or bytes that do not parse as one
TaskFile(d) == [tasks |-> d, parsed |-> TRUE]
Garbled == [tasks |-> <<>>, parsed |-> FALSE]

\* a load that reports a missing file as an error
load_tasks_strict(f) ==
    IF f # <<>> /\ f[1].parsed THEN [tasks |-> f[1].tasks, outcome |-> "Ok"]
    ELSE [tasks |-> <<>>, outcome |-> "Err"]

\* SaveData::new followed by load_tasks: the Result and the tasks afterwards;
\* without a file the list stays the empty one of SaveData::new
load_tasks(f) ==
    IF f = <<>> THEN [tasks |-> <<>>, outcome |-> "Ok"]
    ELSE IF f[1].parsed THEN [tasks |-> f[1].tasks, outcome |-> "Ok"]
    ELSE [tasks |-> <<>>, outcome |-> "Err"]

\* the contents of cloud.json: a CloudConfig, or bytes that do not parse as one
CloudConfig(host, port) == [host |-> host, port |-> port, valid |-> TRUE]
Unreadable == [host |-> "", port |-> "", valid |-> FALSE]
DEFAULT_PORT == "6982"
Configs == {CloudConfig(h, p) : h \in Hosts, p \in {DEFAULT_PORT, "80"}}

\* get_cloud_config: Ok(None) | Ok(Some((host, port))) | Err
get_cloud_config(cfg) ==
    IF cfg = <<>> THEN [outcome |-> "Ok", value |-> <<>>]
    ELSE IF cfg[1].valid THEN [outcome |-> "Ok", value |-> cfg]
    ELSE [outcome |-> "Err", value |-> <<>>]

\* process_cloud_config (utils.rs) and the choice of main: the Option<Client>
process_cloud_config(cfg) ==
    LET r == get_cloud_config(cfg)
    IN  IF r.outcome = "Ok" /\ r.value # <<>> THEN "Some" ELSE "None"

\* Client::new(hostname, Some(port)) of main on the configuration read, as
\* the pair of its hostname and port; <<>> when main keeps client = None
new_client(cfg) ==
    LET r == get_cloud_config(cfg)
    IN  IF r.outcome = "Ok" /\ r.value # <<>>
        THEN <<r.value[1].host, r.value[1].port>>
        ELSE <<>>

\* save_cloud_config: File::create and to_writer
save_cloud_config(cfg, host, port, io) ==
    IF io = "ok" THEN [config |-> <<CloudConfig(host, port)>>, outcome |-> "Ok"]
    ELSE [config |-> cfg, outcome |-> "Err"]

\* remove_cloud_config: fs::remove_file
remove_cloud_config(cfg, io) ==
    IF cfg = <<>> THEN [config |-> cfg, outcome |-> "NotFound"]
    ELSE IF io = "ok" THEN [config |-> <<>>, outcome |-> "Ok"]
    ELSE [config |-> cfg, outcome |-> "Err"]

\* a handle_connect that saves the default port whatever the command says
handle_connect_default(cfg, host, port, io) ==
    LET r == save_cloud_config(cfg, host, DEFAULT_PORT, io)
    IN  [config |-> r.config,
         res |-> IF r.outcome = "Ok" THEN Ok ELSE DataError("server configuration")]

\* handle_connect (command_impl_cloud.rs); port is the Option<String> of the command
handle_connect(cfg, host, port, io) ==
    LET r == IF port = <<>> THEN save_cloud_config(cfg, host, DEFAULT_PORT, io)
             ELSE save_cloud_config(cfg, host, port[1], io)
    IN  [config |-> r.config,
         res |-> IF r.outcome = "Ok" THEN Ok ELSE DataError("server configuration")]

\* handle_disconnect (command_impl_cloud.rs)
handle_disconnect(cfg, io) ==
    LET r == remove_cloud_config(cfg, io)
    IN  [config |-> r.config,
         res |-> CASE r.outcome = "Ok" -> Ok
                   [] r.outcome = "NotFound" -> UnlinkedError
                   [] OTHER -> DataError("configuration")]

(***************************************************************************)
(* Commands (args.rs, enum Command)                                        *)
(***************************************************************************)
Cmd(op, tasks, done) == [done |-> done, tasks |-> tasks, op |-> op]
NoCmd == Cmd("", <<>>, FALSE)
TaskOps == {"Add", "Remove", "Done", "Undone"}

\* Command::execute, client = None (args.rs lines 62-72)
\* a dispatcher whose Disconnect without a client reports success
execute_local_quiet(c, d) ==
    CASE c.op = "Add" -> handle_add(c.tasks, d)
      [] c.op = "Remove" -> handle_remove(c.tasks, d)
      [] c.op = "Done" -> handle_done_undone(c.tasks, d, TRUE)
      [] c.op = "Undone" -> handle_done_undone(c.tasks, d, FALSE)
      [] c.op = "Clear" -> handle_clear(c.done, d)
      [] c.op = "ClearDone" -> handle_clear_done(d)
      [] c.op = "List" -> handle_list(d)
      [] c.op = "Disconnect" -> [data |-> d, res |-> Ok]

execute_local(c, d) ==
    CASE c.op = "Add" -> handle_add(c.tasks, d)
      [] c.op = "Remove" -> handle_remove(c.tasks, d)
      [] c.op = "Done" -> handle_done_undone(c.tasks, d, TRUE)
      [] c.op = "Undone" -> handle_done_undone(c.tasks, d, FALSE)
      [] c.op = "Clear" -> handle_clear(c.done, d)
      [] c.op = "ClearDone" -> handle_clear_done(d)
      [] c.op = "List" -> handle_list(d)
      [] c.op = "Disconnect" -> [data |-> d, res |-> UnlinkedError]

(***************************************************************************)
(* Server request handlers (server/src/functions.rs).  Each loads the      *)
(* persisted list, acts on it and saves it: a function from the list to    *)
(* [status, body, tasks: the list afterwards].                             *)
(***************************************************************************)
OK == 200
NOT_FOUND == 404

srv_get_tasks(s) == [status |-> OK, tasks |-> s, body |-> s]

srv_add_task(s, name) ==
    [status |-> OK, tasks |-> Append(s, Task(name, FALSE)), body |-> Task(name, FALSE)]

\* a remove endpoint that answers OK to a position outside the list
srv_remove_task_lenient(s, idx) ==
    IF Len(s) <= idx THEN [status |-> OK, tasks |-> s, body |-> <<>>]
    ELSE [status |-> OK, tasks |-> vec_remove(s, idx), body |-> <<>>]

srv_remove_task(s, idx) ==
    IF Len(s) <= idx THEN [status |-> NOT_FOUND, tasks |-> s, body |-> <<>>]
    ELSE [status |-> OK, tasks |-> vec_remove(s, idx), body |-> <<>>]

srv_done_task(s, idx) ==
    IF Len(s) <= idx
    THEN [status |-> NOT_FOUND, tasks |-> s, body |-> Task("Could not find specified index", FALSE)]
    ELSE LET t == vec_set_done(s, idx, TRUE)
         IN  [status |-> OK, tasks |-> t, body |-> t[idx + 1]]

srv_undone_task(s, idx) ==
    IF Len(s) <= idx
    THEN [status |-> NOT_FOUND, tasks |-> s, body |-> Task("Could not find specified index", FALSE)]
    ELSE LET t == vec_set_done(s, idx, FALSE)
         IN  [status |-> OK, tasks |-> t, body |-> t[idx + 1]]

srv_clear_tasks(s) == [status |-> OK, tasks |-> <<>>, body |-> <<>>]

srv_clear_done_tasks(s) == [status |-> OK, tasks |-> vec_retain_not_done(s), body |-> <<>>]

\* an index endpoint that answers OK with position 0 when nothing matches
srv_get_index_found(s, name) ==
    LET r == get_index(s, name)
    IN  IF r = <<>> THEN [status |-> OK, tasks |-> s, body |-> 0]
        ELSE [status |-> OK, tasks |-> s, body |-> r[1]]

\* an index endpoint that answers the position counted from one
srv_get_index_one_based(s, name) ==
    LET r == get_index(s, name)
    IN  IF r = <<>> THEN [status |-> NOT_FOUND, tasks |-> s, body |-> 0]
        ELSE [status |-> OK, tasks |-> s, body |-> r[1] + 1]

srv_get_index(s, name) ==
    LET r == get_index(s, name)
    IN  IF r = <<>> THEN [status |-> NOT_FOUND, tasks |-> s, body |-> 0]
        ELSE [status |-> OK, tasks |-> s, body |-> r[1]]

(***************************************************************************)
(* Remote API transport (api/src/lib.rs).  One round trip has one of four  *)
(* outcomes: "ok" (the handler ran and its response arrived), "http" (a    *)
(* non-success status produced before the handler ran), "drop" (transport  *)
(* failure, handler never ran), "lost" (the handler ran, the response was  *)
(* lost or its body was malformed).                                        *)
(***************************************************************************)
NetOutcomes ==
    {[status |-> 0, t |-> "ok"], [status |-> 0, t |-> "drop"],
     [status |-> 0, t |-> "lost"], [status |-> 500, t |-> "http"]}

ApiOk(status, body) == [status |-> status, body |-> body, tag |-> "Ok"]
ApiHTTPError(status) == [status |-> status, body |-> <<>>, tag |-> "HTTPError"]
ApiRequestError == [status |-> 0, body |-> <<>>, tag |-> "RequestError"]

\* StatusCode::is_success
is_success(status) == status \in 200..299

\* The match on the outcome of send() shared by every method of Client:
\* [server: the server's list afterwards, api: the Result of the method].
round_trip(net, resp, s) ==
    [server |-> IF net.t \in {"ok", "lost"} THEN resp.tasks ELSE s,
     api |-> CASE net.t = "ok" -> IF is_success(resp.status)
                                  THEN ApiOk(resp.status, resp.body)
                                  ELSE ApiHTTPError(resp.status)
               [] net.t = "http" -> ApiHTTPError(net.status)
               [] OTHER -> ApiRequestError]

Client_get(net, s) == round_trip(net, srv_get_tasks(s), s)
Client_add(net, s, task_name) == round_trip(net, srv_add_task(s, task_name), s)
Client_get_index(net, s, task_name) == round_trip(net, srv_get_index(s, task_name), s)
\* the second request of Client::remove / done / undone, carrying the index
Client_remove_index(net, s, idx) == round_trip(net, srv_remove_task(s, idx), s)
Client_done_index(net, s, idx) == round_trip(net, srv_done_task(s, idx), s)
Client_undone_index(net, s, idx) == round_trip(net, srv_undone_task(s, idx), s)
Client_clear(net, s) == round_trip(net, srv_clear_tasks(s), s)
Client_clear_done(net, s) == round_trip(net, srv_clear_done_tasks(s), s)

(***************************************************************************)
(* Remote Executor (cli/src/bin/todo/command_impl_cloud.rs)                *)
(***************************************************************************)
\* a probe for which every non-success status is an error
check_exists_cloud_strict(api, task) ==
    CASE api.tag = "Ok" -> [tag |-> "Ok", exists |-> TRUE, err |-> Ok]
      [] api.tag = "HTTPError" ->
            [tag |-> "Err", exists |-> FALSE, err |-> HTTPError(task, api.status)]
      [] OTHER -> [tag |-> "Err", exists |-> FALSE, err |-> ConnectionError(task)]

\* check_exists_cloud: Ok(true) | Ok(false) | Err(CommandError)
check_exists_cloud(api, task) ==
    CASE api.tag = "Ok" -> [tag |-> "Ok", exists |-> TRUE, err |-> Ok]
      [] api.tag = "HTTPError" ->
            IF api.status = 404 THEN [tag |-> "Ok", exists |-> FALSE, err |-> Ok]
            ELSE [tag |-> "Err", exists |-> FALSE, err |-> HTTPError(task, api.status)]
      [] OTHER -> [tag |-> "Err", exists |-> FALSE, err |-> ConnectionError(task)]

\* an error mapping that drops the task name (as the one of list and clear)
api_error_no_name(api, task) ==
    IF api.tag = "HTTPError" THEN HTTPError("", api.status) ELSE ConnectionError("")

\* the match on an ApiError of handle_add_cloud / handle_remove_cloud
api_error(api, task) ==
    IF api.tag = "HTTPError" THEN HTTPError(task, api.status) ELSE ConnectionError(task)

\* a match that reports a 404 like every other status
api_error_mark_plain(api, task) ==
    IF api.tag = "HTTPError" THEN HTTPError(task, api.status) ELSE ConnectionError(task)

\* the match on an ApiError of handle_done_undone_cloud (404 is a missing task)
api_error_mark(api, task) ==
    IF api.tag = "HTTPError"
    THEN IF api.status = 404 THEN TaskNotFound(task) ELSE HTTPError(task, api.status)
    ELSE ConnectionError(task)

\* a match that names the task ("list") in the error of List and Clear
api_error_unnamed_labelled(api) ==
    IF api.tag = "HTTPError" THEN HTTPError("list", api.status) ELSE ConnectionError("list")

\* the match on an ApiError of handle_list_cloud / handle_clear_cloud
api_error_unnamed(api) ==
    IF api.tag = "HTTPError" THEN HTTPError("", api.status) ELSE ConnectionError("")

(***************************************************************************)
(* State machine                                                           *)
(***************************************************************************)
NoResult == [name |-> "", kind |-> "", status |-> 0]
\* a request of the history: endpoint, body, the phase that sent it, its outcome
\* and the status the client received (0 when it received none)
Req(ep, arg, at, net, api) ==
    [status |-> api.status, body |-> api.body, net |-> net.t, ep |-> ep, arg |-> arg, at |-> at]
MutatingEps == {"add", "remove", "done", "undone", "clear", "cleardone"}

Init ==
    /\ client \in {"None", "Some"}
    /\ IF client = "None"
       THEN data \in Stores /\ server = <<>>
       ELSE data = <<>> /\ server \in CloudStores
    /\ pc = "idle"
    /\ cmd = NoCmd
    /\ i = 1
    /\ seen = {}
    /\ index = <<>>
    /\ result = NoResult
    /\ data0 = <<>>
    /\ server0 = <<>>
    /\ sent = <<>>
    /\ faults = 0
    /\ flight = <<>>
    /\ file = <<>>
    /\ config = IF client = "Some" THEN <<CloudConfig("h", DEFAULT_PORT)>> ELSE <<>>
    /\ main = "none"
    /\ config0 = config
    /\ log = <<>>
    /\ errs = <<>>
    /\ rival = "none"
    /\ bound = new_client(config)
    /\ prev = <<>>
    /\ scene = <<>>

\* a session of ScriptLen commands handed to execute one after the other:
\* command number k + 1, for the task name n
ScriptLen == 6
Script(k, n) ==
    CASE k = 0 -> Cmd("Add", <<n>>, FALSE)
      [] k = 2 -> Cmd("Done", <<n>>, TRUE)
      [] k = 4 -> Cmd("Clear", <<>>, TRUE)
      [] OTHER -> Cmd("List", <<>>, FALSE)

\* execute is entered: the history of the command starts.  Under main the
\* command is the one of the command line, or the follow-up List.
Enter(c) ==
    /\ pc = "idle"
    /\ main # "exit"
    /\ main = "list" => c.op = "List"
    /\ ((main # "none" \/ rival # "none") /\ c.op \in TaskOps) => Len(c.tasks) <= MainBatch
    /\ scene # <<>> => (scene[1] < ScriptLen /\ c = Script(scene[1], scene[2]))
    /\ UNCHANGED <<proc, flight>>
    /\ cmd' = c
    /\ data0' = data
    /\ server0' = server
    /\ i' = 1
    /\ seen' = {}
    /\ index' = <<>>

\* execute returns r
Finish(r) ==
    /\ pc' = "done"
    /\ result' = r

\* a local executor that also pushes its collection to the server
Local_mirrored(c) ==
    /\ client = "None"
    /\ Enter(c)
    /\ LET r == execute_local(c, data)
       IN  data' = r.data /\ server' = r.data /\ Finish(r.res)
    /\ UNCHANGED <<client, sent, faults, config>>

\* ---- client = None: the handler runs to completion in one step
Local(c) ==
    /\ client = "None"
    /\ Enter(c)
    /\ LET r == execute_local(c, data)
       IN  data' = r.data /\ Finish(r.res)
    /\ UNCHANGED <<server, client, sent, faults, config>>

LocalAdd == \E tasks \in Batches : Local(Cmd("Add", tasks, FALSE))
LocalRemove == \E tasks \in Batches : Local(Cmd("Remove", tasks, FALSE))
LocalDone == \E tasks \in Batches : Local(Cmd("Done", tasks, TRUE))
LocalUndone == \E tasks \in Batches : Local(Cmd("Undone", tasks, FALSE))
LocalClear == \E done \in BOOLEAN : Local(Cmd("Clear", <<>>, done))
LocalClearDone == Local(Cmd("ClearDone", <<>>, TRUE))
LocalList == Local(Cmd("List", <<>>, FALSE))

\* an entry without the check for an empty batch
CloudBegin_unchecked(c) ==
    /\ client = "Some"
    /\ Enter(c)
    /\ pc' = "validate" /\ result' = NoResult
    /\ sent' = <<>>
    /\ faults' = 0
    /\ UNCHANGED <<data, server, client, config>>

\* ---- client = Some: entry of handle_add_cloud / handle_remove_cloud /
\* handle_done_undone_cloud, with the check for an empty batch
CloudBegin(c) ==
    /\ client = "Some"
    /\ Enter(c)
    /\ IF Len(c.tasks) <= 0
       THEN Finish(NoTasksSpecified)
       ELSE pc' = "validate" /\ result' = NoResult
    /\ sent' = <<>>
    /\ faults' = 0
    /\ UNCHANGED <<data, server, client, config>>

CloudAddBegin == \E tasks \in CloudBatches : CloudBegin(Cmd("Add", tasks, FALSE))
CloudRemoveBegin == \E tasks \in CloudBatches : CloudBegin(Cmd("Remove", tasks, FALSE))
CloudDoneBegin == \E tasks \in CloudBatches : CloudBegin(Cmd("Done", tasks, TRUE))
CloudUndoneBegin == \E tasks \in CloudBatches : CloudBegin(Cmd("Undone", tasks, FALSE))

\* a client that calls with the position its validation probe was answered
request_snapshot ==
    CASE pc = "validate" -> <<"index", cmd.tasks[i]>>
      [] pc = "mutate" -> <<IF cmd.op = "Add" THEN "add" ELSE "index", cmd.tasks[i]>>
      [] pc = "indexed" -> <<IF cmd.op = "Remove" THEN "remove"
                             ELSE IF cmd.done THEN "done" ELSE "undone", sent[i].body>>

\* the request the handler sends at its position: the probe of the validation
\* loop, client.add or the index lookup of the mutation loop, or the call
\* with the index that Client::remove / done / undone holds
request ==
    CASE pc = "validate" -> <<"index", cmd.tasks[i]>>
      [] pc = "mutate" -> <<IF cmd.op = "Add" THEN "add" ELSE "index", cmd.tasks[i]>>
      [] pc = "indexed" -> <<IF cmd.op = "Remove" THEN "remove"
                             ELSE IF cmd.done THEN "done" ELSE "undone", index[1]>>

\* a client that sends the next request without awaiting the answer
RequestSent_pipelined ==
    /\ pc \in {"validate", "mutate", "indexed"}
    /\ pc = "validate" => cmd.tasks[i] \notin seen
    /\ Len(flight) < 2
    /\ flight' = Append(flight, request)
    /\ UNCHANGED <<data, server, client, pc, cmd, i, seen, index, result, data0, server0,
                   sent, faults, config, proc>>

\* reqwest's send(): the request leaves; the handler is suspended at .await
RequestSent ==
    /\ pc \in {"validate", "mutate", "indexed"}
    /\ pc = "validate" => cmd.tasks[i] \notin seen
    /\ flight = <<>>
    /\ flight' = Append(flight, request)
    /\ UNCHANGED <<data, server, client, pc, cmd, i, seen, index, result, data0, server0,
                   sent, faults, config, proc>>

\* the answer of one round trip: the server has handled the request in
\* flight, the request is recorded, a failure is counted
Exchange(net, ep, arg, rt) ==
    /\ flight = << <<ep, arg>> >>
    /\ flight' = <<>>
    /\ sent' = Append(sent, Req(ep, arg, pc, net, rt.api))
    /\ server' = rt.server
    /\ faults' = IF net.t = "ok" THEN faults ELSE faults + 1

\* a validation loop that is left after its first name
after_validated_early(k, n) == [pc |-> "mutate", i |-> k]

\* where a validation loop goes after name k of n has passed both checks
after_validated(k, n) ==
    IF k = n THEN [pc |-> "mutate", i |-> 1] ELSE [pc |-> "validate", i |-> k + 1]

\* one iteration of the validation loop of a cloud handler: handle_add_cloud
\* (adding) rejects a name that exists, the others reject one that does not
CloudValidate(adding) ==
    /\ pc = "validate"
    /\ LET task == cmd.tasks[i]
       IN  IF task \in seen
           THEN /\ Finish(DuplicateInput(task))
                /\ UNCHANGED <<server, sent, faults, i, seen, flight>>
           ELSE \E net \in NetOutcomes :
                  LET rt == Client_get_index(net, server, task)
                      ex == check_exists_cloud(rt.api, task)
                      nx == after_validated(i, Len(cmd.tasks))
                  IN  /\ Exchange(net, "index", task, rt)
                      /\ seen' = seen \cup {task}
                      /\ IF ex.tag = "Err" THEN Finish(ex.err) /\ i' = i
                         ELSE IF ex.exists = adding
                              THEN /\ Finish(IF adding THEN TaskExists(task)
                                             ELSE TaskNotFound(task))
                                   /\ i' = i
                         ELSE pc' = nx.pc /\ i' = nx.i /\ result' = result
    /\ UNCHANGED <<data, client, cmd, index, data0, server0, config, proc>>

CloudAddValidate == cmd.op = "Add" /\ CloudValidate(TRUE)
CloudRemoveValidate == cmd.op = "Remove" /\ CloudValidate(FALSE)
CloudMarkValidate == cmd.op \in {"Done", "Undone"} /\ CloudValidate(FALSE)

\* a mutation loop that never leaves its name
NextName_again == pc' = "mutate" /\ i' = i /\ result' = result

\* the mutation loop goes on to the next name, or the handler returns Ok
NextName ==
    IF i = Len(cmd.tasks)
    THEN Finish(Ok) /\ i' = i
    ELSE pc' = "mutate" /\ i' = i + 1 /\ result' = result

\* handle_add_cloud, one iteration of the loop over client.add
CloudAddMutate ==
    /\ pc = "mutate"
    /\ cmd.op = "Add"
    /\ \E net \in NetOutcomes :
          LET task == cmd.tasks[i]
              rt == Client_add(net, server, task)
          IN  /\ Exchange(net, "add", task, rt)
              /\ IF rt.api.tag = "Ok" THEN NextName
                 ELSE Finish(api_error(rt.api, task)) /\ i' = i
    /\ UNCHANGED <<data, client, cmd, seen, index, data0, server0, config, proc>>

\* Client::remove / done / undone, first request: the index lookup
CloudLookup(marking) ==
    /\ pc = "mutate"
    /\ \E net \in NetOutcomes :
          LET task == cmd.tasks[i]
              rt == Client_get_index(net, server, task)
          IN  /\ Exchange(net, "index", task, rt)
              /\ IF rt.api.tag = "Ok"
                 THEN pc' = "indexed" /\ index' = <<rt.api.body>> /\ result' = result
                 ELSE /\ Finish(IF marking THEN api_error_mark(rt.api, task)
                                 ELSE api_error(rt.api, task))
                      /\ index' = index
    /\ UNCHANGED <<data, client, cmd, i, seen, data0, server0, config, proc>>

CloudRemoveLookup == cmd.op = "Remove" /\ CloudLookup(FALSE)
CloudMarkLookup == cmd.op \in {"Done", "Undone"} /\ CloudLookup(TRUE)

\* Client::remove, second request: DELETE /remove with the index
CloudRemoveDelete ==
    /\ pc = "indexed"
    /\ cmd.op = "Remove"
    /\ \E net \in NetOutcomes :
          LET task == cmd.tasks[i]
              rt == Client_remove_index(net, server, index[1])
          IN  /\ Exchange(net, "remove", index[1], rt)
              /\ IF rt.api.tag = "Ok" THEN NextName
                 ELSE Finish(api_error(rt.api, task)) /\ i' = i
    /\ index' = <<>>
    /\ UNCHANGED <<data, client, cmd, seen, data0, server0, config, proc>>

\* Client::done / undone, second request: POST /done or /undone with the index
CloudMarkPost ==
    /\ pc = "indexed"
    /\ cmd.op \in {"Done", "Undone"}
    /\ \E net \in NetOutcomes :
          LET task == cmd.tasks[i]
              rt == IF cmd.done THEN Client_done_index(net, server, index[1])
                    ELSE Client_undone_index(net, server, index[1])
          IN  /\ Exchange(net, IF cmd.done THEN "done" ELSE "undone", index[1], rt)
              /\ IF rt.api.tag = "Ok" THEN NextName
                 ELSE Finish(api_error_mark(rt.api, task)) /\ i' = i
    /\ index' = <<>>
    /\ UNCHANGED <<data, client, cmd, seen, data0, server0, config, proc>>

\* handle_clear_cloud
CloudClearOf(c) ==
    /\ client = "Some"
    /\ Enter(c)
    /\ \E net \in NetOutcomes :
          LET rt == IF c.done THEN Client_clear_done(net, server) ELSE Client_clear(net, server)
          IN  /\ sent' = <<Req(IF c.done THEN "cleardone" ELSE "clear", "", "idle", net, rt.api)>>
              /\ server' = rt.server
              /\ faults' = IF net.t = "ok" THEN 0 ELSE 1
              /\ IF rt.api.tag = "Ok" THEN Finish(Ok) ELSE Finish(api_error_unnamed(rt.api))
    /\ UNCHANGED <<data, client, config>>

CloudClear == \E done \in BOOLEAN : CloudClearOf(Cmd("Clear", <<>>, done))

\* handle_clear_done_cloud
CloudClearDone == CloudClearOf(Cmd("ClearDone", <<>>, TRUE))

\* handle_list_cloud
CloudList ==
    /\ client = "Some"
    /\ Enter(Cmd("List", <<>>, FALSE))
    /\ \E net \in NetOutcomes :
          LET rt == Client_get(net, server)
          IN  /\ sent' = <<Req("tasks", "", "idle", net, rt.api)>>
              /\ server' = rt.server
              /\ faults' = IF net.t = "ok" THEN 0 ELSE 1
              /\ IF rt.api.tag = "Ok" THEN Finish(Ok) ELSE Finish(api_error_unnamed(rt.api))
    /\ UNCHANGED <<data, client, config>>

\* handle_connect, called by execute whatever the client is
Connect ==
    \E host \in Hosts, port \in Ports, io \in IoOutcomes :
        /\ Enter(Cmd("Connect", <<host>> \o port, FALSE))
        /\ LET r == handle_connect(config, host, port, io)
           IN  config' = r.config /\ Finish(r.res)
        /\ UNCHANGED <<data, server, client, sent, faults>>

\* Command::Disconnect with client = None: Err(UnlinkedError)
LocalDisconnect == Local(Cmd("Disconnect", <<>>, FALSE))

\* Command::Disconnect with client = Some: handle_disconnect
CloudDisconnect ==
    /\ client = "Some"
    /\ \E io \in IoOutcomes :
          /\ Enter(Cmd("Disconnect", <<>>, FALSE))
          /\ LET r == handle_disconnect(config, io)
             IN  config' = r.config /\ Finish(r.res)
    /\ UNCHANGED <<data, server, client, sent, faults>>

\* the locals of execute are dropped when it has returned
Dropped ==
    /\ pc' = "idle"
    /\ cmd' = NoCmd
    /\ i' = 1
    /\ seen' = {}
    /\ index' = <<>>
    /\ result' = NoResult
    /\ data0' = <<>>
    /\ server0' = <<>>
    /\ sent' = <<>>
    /\ faults' = 0
    /\ flight' = <<>>

\* the caller takes the result; the next execute may be called
Return ==
    /\ pc = "done"
    /\ main = "none"
    /\ Dropped
    /\ UNCHANGED <<data, server, client, config, proc>>

Next ==
    \/ LocalAdd \/ LocalRemove \/ LocalDone \/ LocalUndone
    \/ LocalClear \/ LocalClearDone \/ LocalList
    \/ CloudAddBegin \/ CloudRemoveBegin \/ CloudDoneBegin \/ CloudUndoneBegin
    \/ RequestSent
    \/ CloudAddValidate \/ CloudRemoveValidate \/ CloudMarkValidate
    \/ CloudAddMutate
    \/ CloudRemoveLookup \/ CloudRemoveDelete
    \/ CloudMarkLookup \/ CloudMarkPost
    \/ CloudClear \/ CloudClearDone \/ CloudList
    \/ Return

Spec == Init /\ [][Next]_vars

\* a step of a cloud handler that has been entered: a request leaves, or the
\* answer of the request in flight (a response or a transport failure) is
\* handled
CloudStep ==
    \/ RequestSent
    \/ CloudAddValidate \/ CloudRemoveValidate \/ CloudMarkValidate
    \/ CloudAddMutate
    \/ CloudRemoveLookup \/ CloudRemoveDelete
    \/ CloudMarkLookup \/ CloudMarkPost

\* the runtime polls the handler and every request sent is answered or fails
LiveSpec == Spec /\ WF_vars(CloudStep)

(***************************************************************************)
(* The program: invocations of main (cli/src/bin/todo/main.rs)             *)
(***************************************************************************)
\* Before the first invocation: an installation without a readable
\* configuration and any task file, or a linked one and any server list.
MainInit ==
    /\ \/ /\ config \in {<<>>, <<Unreadable>>}
          /\ file \in {<<>>, <<Garbled>>} \cup {<<TaskFile(d)>> : d \in MainStores}
          /\ server = <<>>
       \/ /\ config = <<CloudConfig("h", DEFAULT_PORT)>>
          /\ file = <<>>
          /\ server \in MainStores
    /\ main = "exit"
    /\ client = "None"
    /\ data = <<>>
    /\ pc = "idle"
    /\ cmd = NoCmd
    /\ i = 1
    /\ seen = {}
    /\ index = <<>>
    /\ result = NoResult
    /\ data0 = <<>>
    /\ server0 = <<>>
    /\ sent = <<>>
    /\ faults = 0
    /\ flight = <<>>
    /\ config0 = config
    /\ log = <<>>
    /\ errs = <<>>
    /\ rival = "none"
    /\ bound = <<>>
    /\ prev = <<>>
    /\ scene = <<>>

\* what an invocation that has ended hands to the next one through cloud.json:
\* the Connect or Disconnect it executed with success, and its own backend
switched(l) ==
    IF l # <<>> /\ l[1].op \in {"Connect", "Disconnect"} /\ l[1].res = Ok
    THEN <<l[1].op, l[1].args, l[1].client>>
    ELSE <<>>

\* main, lines 19-37: SaveData::new, load_tasks (an error ends main), and the client chosen from
\* the saved configuration
MainStart ==
    /\ main = "exit"
    /\ LET l == load_tasks(file)
       IN  IF l.outcome = "Ok"
           THEN /\ data' = l.tasks
                /\ client' = process_cloud_config(config)
                /\ bound' = new_client(config)
                /\ main' = "command"
           ELSE /\ data' = l.tasks
                /\ client' = "None"
                /\ bound' = <<>>
                /\ main' = "exit"
    /\ config0' = config
    /\ log' = <<>>
    /\ errs' = <<>>
    /\ prev' = switched(log)
    /\ UNCHANGED <<server, pc, cmd, i, seen, index, result, data0, server0, sent, faults,
                   file, config, rival, flight, scene>>

\* a call of execute that has returned, as the history keeps it
Call == [server |-> server, client |-> client, res |-> result, op |-> cmd.op, args |-> cmd.tasks]

\* a main that lists after every command, failed or not
follow_up_always(c, r) == IF c.op # "List" THEN "list" ELSE "exit"

\* where main goes when the command of the command line has returned r
follow_up(c, r) == IF r = Ok /\ c.op # "List" THEN "list" ELSE "exit"

\* an error handler that prints nothing
handle_silent(es, r) == es

\* err.handle(): the error is printed to standard error
handle(es, r) == IF r = Ok THEN es ELSE Append(es, r)

\* a main that reads the configuration again before the follow-up List
AfterCommand_rechoose ==
    /\ pc = "done"
    /\ main = "command"
    /\ main' = follow_up(cmd, result)
    /\ errs' = handle(errs, result)
    /\ log' = Append(log, Call)
    /\ Dropped
    /\ client' = process_cloud_config(config)
    /\ bound' = new_client(config)
    /\ UNCHANGED <<data, server, file, config, config0, rival, prev, scene>>

\* main, lines 39-47: the match on the result of the command
AfterCommand ==
    /\ pc = "done"
    /\ main = "command"
    /\ main' = follow_up(cmd, result)
    /\ errs' = handle(errs, result)
    /\ log' = Append(log, Call)
    /\ Dropped
    /\ UNCHANGED <<data, server, client, file, config, config0, rival, bound, prev, scene>>

\* main, lines 42-45: the match on the result of the follow-up List
AfterList ==
    /\ pc = "done"
    /\ main = "list"
    /\ main' = "exit"
    /\ errs' = handle(errs, result)
    /\ log' = Append(log, Call)
    /\ Dropped
    /\ UNCHANGED <<data, server, client, file, config, config0, rival, bound, prev, scene>>

MainNext ==
    \/ MainStart
    \/ LocalAdd \/ LocalRemove \/ LocalDone \/ LocalUndone
    \/ LocalClear \/ LocalClearDone \/ LocalList
    \/ CloudAddBegin \/ CloudRemoveBegin \/ CloudDoneBegin \/ CloudUndoneBegin
    \/ RequestSent
    \/ CloudAddValidate \/ CloudRemoveValidate \/ CloudMarkValidate
    \/ CloudAddMutate
    \/ CloudRemoveLookup \/ CloudRemoveDelete
    \/ CloudMarkLookup \/ CloudMarkPost
    \/ CloudClear \/ CloudClearDone \/ CloudList
    \/ Connect \/ LocalDisconnect \/ CloudDisconnect
    \/ AfterCommand \/ AfterList

MainSpec == MainInit /\ [][MainNext]_vars

(***************************************************************************)
(* One remote command while a second client uses the same server           *)
(***************************************************************************)
RaceInit ==
    /\ client = "Some"
    /\ data = <<>>
    /\ server \in CloudStores
    /\ pc = "idle"
    /\ cmd = NoCmd
    /\ i = 1
    /\ seen = {}
    /\ index = <<>>
    /\ result = NoResult
    /\ data0 = <<>>
    /\ server0 = <<>>
    /\ sent = <<>>
    /\ faults = 0
    /\ flight = <<>>
    /\ file = <<>>
    /\ config = <<CloudConfig("h", DEFAULT_PORT)>>
    /\ main = "none"
    /\ config0 = config
    /\ log = <<>>
    /\ errs = <<>>
    /\ rival = "idle"
    /\ bound = new_client(config)
    /\ prev = <<>>
    /\ scene = <<>>

\* the handlers of the server that change its list, as any client may call
\* them: with a name, or with a position up to the length of the list
RivalRequests(s) ==
    {srv_add_task(s, n) : n \in CloudNames}
        \cup {srv_remove_task(s, k) : k \in 0..Len(s)}
        \cup {srv_done_task(s, k) : k \in 0..Len(s)}
        \cup {srv_undone_task(s, k) : k \in 0..Len(s)}
        \cup {srv_clear_tasks(s), srv_clear_done_tasks(s)}

\* the second client's request is served between two requests of the command
Rival ==
    /\ rival = "idle"
    /\ pc \in {"validate", "mutate", "indexed"}
    /\ \E resp \in RivalRequests(server) : server' = resp.tasks
    /\ rival' = "done"
    /\ UNCHANGED <<data, client, pc, cmd, i, seen, index, result, data0, server0, sent,
                   faults, config, file, main, config0, log, errs, bound, prev, flight, scene>>

\* the second client runs handle_add_cloud for one name n: its probe is
\* answered 404 (rival becomes n, the name found absent) ...
RivalProbe ==
    /\ rival = "idle"
    /\ pc \in {"validate", "mutate", "indexed"}
    /\ \E n \in CloudNames :
          /\ srv_get_index(server, n).status = NOT_FOUND
          /\ rival' = n
    /\ UNCHANGED <<data, server, client, pc, cmd, i, seen, index, result, data0, server0, sent,
                   faults, config, file, main, config0, log, errs, bound, prev, flight, scene>>

\* ... and its POST /add of that name is served later
RivalAdd ==
    /\ rival \in CloudNames
    /\ pc \in {"validate", "mutate", "indexed"}
    /\ server' = srv_add_task(server, rival).tasks
    /\ rival' = "added"
    /\ UNCHANGED <<data, client, pc, cmd, i, seen, index, result, data0, server0, sent,
                   faults, config, file, main, config0, log, errs, bound, prev, flight, scene>>

RaceNext ==
    \/ CloudAddBegin \/ CloudRemoveBegin \/ CloudDoneBegin \/ CloudUndoneBegin
    \/ RequestSent
    \/ CloudAddValidate \/ CloudRemoveValidate \/ CloudMarkValidate
    \/ CloudAddMutate
    \/ CloudRemoveLookup \/ CloudRemoveDelete
    \/ CloudMarkLookup \/ CloudMarkPost
    \/ Rival
    \/ RivalProbe \/ RivalAdd

RaceSpec == RaceInit /\ [][RaceNext]_vars

(***************************************************************************)
(* A scripted session: Add([n]), List, Done([n]), List, Clear(doneOnly),   *)
(* List, from an empty store, on either backend.  A command that fails     *)
(* ends the session.                                                       *)
(***************************************************************************)
ScriptInit ==
    /\ client \in {"None", "Some"}
    /\ data = <<>>
    /\ server = <<>>
    /\ pc = "idle"
    /\ cmd = NoCmd
    /\ i = 1
    /\ seen = {}
    /\ index = <<>>
    /\ result = NoResult
    /\ data0 = <<>>
    /\ server0 = <<>>
    /\ sent = <<>>
    /\ faults = 0
    /\ flight = <<>>
    /\ file = <<>>
    /\ config = IF client = "Some" THEN <<CloudConfig("h", DEFAULT_PORT)>> ELSE <<>>
    /\ main = "none"
    /\ config0 = config
    /\ log = <<>>
    /\ errs = <<>>
    /\ rival = "none"
    /\ bound = new_client(config)
    /\ prev = <<>>
    /\ \E n \in (IF client = "Some" THEN CloudNames ELSE Names) : scene = <<0, n>>

\* the caller has seen Ok and types the next command of the script
ScriptReturn ==
    /\ pc = "done"
    /\ scene # <<>>
    /\ result = Ok
    /\ scene' = <<scene[1] + 1, scene[2]>>
    /\ Dropped
    /\ UNCHANGED <<data, server, client, config, file, main, config0, log, errs, rival,
                   bound, prev>>

ScriptNext ==
    \/ LocalAdd \/ LocalDone \/ LocalClear \/ LocalList
    \/ CloudAddBegin \/ CloudDoneBegin
    \/ RequestSent
    \/ CloudAddValidate \/ CloudMarkValidate
    \/ CloudAddMutate
    \/ CloudMarkLookup \/ CloudMarkPost
    \/ CloudClear \/ CloudList
    \/ ScriptReturn

ScriptSpec == ScriptInit /\ [][ScriptNext]_vars

(***************************************************************************)
(* Properties                                                              *)
(***************************************************************************)
Range(f) == {f[k] : k \in DOMAIN f}
HasRepeat(t) == \E j, k \in 1..Len(t) : j < k /\ t[j] = t[k]
UniqueNames(d) == \A j, k \in 1..Len(d) : d[j].name = d[k].name => j = k
Returned == pc = "done"
LocalReturned(ops) == Returned /\ client = "None" /\ cmd.op \in ops
CloudReturned(ops) == Returned /\ client = "Some" /\ cmd.op \in ops

\* C1: a local Add that returns TaskExists leaves the collection exactly as
\* it was when the command was called, wherever the existing name stands in
\* the request.
C1_AddTaskExistsLeavesStore ==
    (LocalReturned({"Add"}) /\ result.kind = "TaskExists") => data = data0

\* the existing name is the second of the request, after a name that is new
C1_Witness ==
    /\ LocalReturned({"Add"})
    /\ Len(cmd.tasks) = 2
    /\ result = TaskExists(cmd.tasks[2])
    /\ get_index(data0, cmd.tasks[1]) = <<>>
    /\ data = data0

\* C2: a local Add whose request names some task twice returns
\* DuplicateInput whatever the store holds, never TaskExists.
C2_RepeatedNameIsDuplicateInput ==
    (LocalReturned({"Add"}) /\ HasRepeat(cmd.tasks)) => result.kind = "DuplicateInput"

\* C3: in a remote Add/Remove/Done/Undone a mutating request is sent only
\* after every name of the batch has been checked for repetition and probed
\* with the required answer, and a command that returns an error from its
\* validation phase has sent no mutating request and leaves the server's
\* list as it was.
ValidationComplete ==
    /\ ~HasRepeat(cmd.tasks)
    /\ Len(sent) >= Len(cmd.tasks)
    /\ \A k \in 1..Len(cmd.tasks) :
          /\ sent[k].ep = "index" /\ sent[k].arg = cmd.tasks[k] /\ sent[k].at = "validate"
          /\ sent[k].net = "ok"
          /\ (get_index(server0, cmd.tasks[k]) = <<>>) <=> (cmd.op = "Add")

ValidationError ==
    /\ Returned
    /\ result # Ok
    /\ sent = <<>> \/ sent[Len(sent)].at = "validate"

C3_ValidateBeforeMutate ==
    (client = "Some" /\ cmd.op \in TaskOps) =>
        /\ (\E k \in 1..Len(sent) : sent[k].ep \in MutatingEps) => ValidationComplete
        /\ ValidationError =>
              /\ server = server0
              /\ \A k \in 1..Len(sent) : sent[k].ep \notin MutatingEps

\* the second name of a remote batch fails its probe after the first passed
C3_Witness ==
    /\ CloudReturned(TaskOps)
    /\ ValidationError
    /\ Len(cmd.tasks) = 2
    /\ Len(sent) = 2
    /\ result.kind \in {"TaskExists", "TaskNotFound", "HTTPError", "ConnectionError"}
    /\ result.name = cmd.tasks[2]

\* C4: when the mutating step of name k of a remote batch fails, the command
\* returns at once with an error that carries that name; the mutations of
\* the names before it stay on the server, the failing request was sent
\* once, and nothing was sent for the names after it.
MutationError ==
    /\ CloudReturned(TaskOps)
    /\ result # Ok
    /\ sent # <<>>
    /\ sent[Len(sent)].at \in {"mutate", "indexed"}

\* the list after the mutations of the first k names, applied to the list s
Applied(k, s) ==
    LET first == SubSeq(cmd.tasks, 1, k)
    IN  CASE cmd.op = "Add" -> add_push(first, s, 1)
          [] cmd.op = "Remove" -> remove_each(first, s, 1)
          [] OTHER -> mark_each(first, s, cmd.done, 1)

C4_MutationFailureStops ==
    MutationError =>
        LET n == Len(cmd.tasks)
            mut == SubSeq(sent, n + 1, Len(sent))
            last == sent[Len(sent)]
            per == IF cmd.op = "Add" THEN 1 ELSE 2
            k == (Len(mut) + per - 1) \div per
            ep == CASE cmd.op = "Add" -> "add" [] cmd.op = "Remove" -> "remove"
                    [] cmd.op = "Done" -> "done" [] OTHER -> "undone"
        IN  /\ k \in 1..n
            /\ result.kind \in {"HTTPError", "ConnectionError", "TaskNotFound"}
            /\ result.name = cmd.tasks[k]
            /\ \A j \in 1..Len(mut) :
                  /\ j < Len(mut) => mut[j].net = "ok"
                  /\ IF cmd.op = "Add" THEN mut[j].ep = "add" /\ mut[j].arg = cmd.tasks[j]
                     ELSE IF j % 2 = 1
                          THEN mut[j].ep = "index" /\ mut[j].arg = cmd.tasks[(j + 1) \div 2]
                          ELSE mut[j].ep = ep
            /\ server = IF last.ep \in MutatingEps /\ last.net = "lost"
                        THEN Applied(k, server0)
                        ELSE Applied(k - 1, server0)

\* the second name fails after the first has been mutated on the server
C4_Witness ==
    /\ MutationError
    /\ Len(cmd.tasks) = 2
    /\ result.name = cmd.tasks[2]
    /\ server = Applied(1, server0)
    /\ server # server0

\* C5: without failed round trips, a remote command returns what the local
\* executor returns for the same request on the list the server held when
\* the command was called, and leaves the server holding the list the local
\* executor leaves.
C5_RemoteEqualsLocal ==
    (Returned /\ client = "Some" /\ faults = 0) =>
        LET r == execute_local(cmd, server0)
        IN  result = r.res /\ server = r.data

\* a remote Remove of two names that shifts the second target
C5_Witness ==
    /\ CloudReturned({"Remove"})
    /\ faults = 0
    /\ result = Ok
    /\ Len(cmd.tasks) = 2
    /\ Len(server) = Len(server0) - 2

\* C6: a local Remove, Done or Undone that returns TaskNotFound leaves the
\* collection exactly as it was, also when earlier names of the request exist.
C6_NotFoundLeavesStore ==
    (LocalReturned({"Remove", "Done", "Undone"}) /\ result.kind = "TaskNotFound")
        => data = data0

\* the first name exists (and would have been changed), the second does not
C6_Witness ==
    /\ LocalReturned({"Remove", "Done", "Undone"})
    /\ Len(cmd.tasks) = 2
    /\ result = TaskNotFound(cmd.tasks[2])
    /\ get_index(data0, cmd.tasks[1]) # <<>>
    /\ cmd.op # "Remove" => data0[get_index(data0, cmd.tasks[1])[1] + 1].done # cmd.done

\* C7: a successful local Remove on a store with unique names leaves exactly
\* the tasks whose names are not in the request, in their order and with
\* their done flags, for every order of the names in the request.
C7_RemoveExactly ==
    (LocalReturned({"Remove"}) /\ result = Ok /\ UniqueNames(data0)) =>
        LET Kept(t) == t.name \notin Range(cmd.tasks)
        IN  data = SelectSeq(data0, Kept)

\* the first removal shifts the position of the second target, a task stays
C7_Witness ==
    /\ LocalReturned({"Remove"})
    /\ result = Ok
    /\ UniqueNames(data0)
    /\ Len(cmd.tasks) = 2
    /\ get_index(data0, cmd.tasks[1])[1] < get_index(data0, cmd.tasks[2])[1]
    /\ Len(data) = 1

\* C8: a successful local Add keeps the tasks of the store where they were
\* and appends one undone task per requested name, in request order.
C8_AddAppendsInOrder ==
    (LocalReturned({"Add"}) /\ result = Ok) =>
        /\ Len(data) = Len(data0) + Len(cmd.tasks)
        /\ \A k \in 1..Len(data0) : data[k] = data0[k]
        /\ \A k \in 1..Len(cmd.tasks) : data[Len(data0) + k] = Task(cmd.tasks[k], FALSE)

\* two names are added to a store that is not empty
C8_Witness ==
    /\ LocalReturned({"Add"})
    /\ result = Ok
    /\ Len(cmd.tasks) = 2
    /\ Len(data0) >= 1
    /\ Len(data) = Len(data0) + 2

\* C9: after a successful local Done / Undone every requested name resolves
\* to a task whose done flag is the requested value.
C9_MarkSetsFlag ==
    (LocalReturned({"Done", "Undone"}) /\ result = Ok) =>
        \A n \in Range(cmd.tasks) :
            /\ get_index(data, n) # <<>>
            /\ data[get_index(data, n)[1] + 1].done = cmd.done

\* two names are marked, one of them changes its flag
C9_Witness ==
    /\ LocalReturned({"Done", "Undone"})
    /\ result = Ok
    /\ Len(cmd.tasks) = 2
    /\ data # data0

\* C10: a local Done / Undone of tasks that already have the requested flag
\* succeeds and changes nothing, and a successful Done / Undone applied a
\* second time succeeds and leaves the store of the first application.
AlreadyMarked(d) ==
    /\ cmd.tasks # <<>>
    /\ ~HasRepeat(cmd.tasks)
    /\ \A n \in Range(cmd.tasks) :
          /\ get_index(d, n) # <<>>
          /\ d[get_index(d, n)[1] + 1].done = cmd.done

C10_MarkIdempotent ==
    LocalReturned({"Done", "Undone"}) =>
        /\ AlreadyMarked(data0) => (result = Ok /\ data = data0)
        /\ result = Ok =>
              handle_done_undone(cmd.tasks, data, cmd.done) = [data |-> data, res |-> Ok]

\* Done on a task that is already done
C10_Witness ==
    /\ LocalReturned({"Done"})
    /\ AlreadyMarked(data0)
    /\ result = Ok
    /\ data = data0

\* C11: get_index(collection, name) is the smallest position whose task has
\* exactly that name, also when several tasks share it, and None exactly
\* when no task has it (a name that differs in case is another name).
Queries == Names \cup {"A", "B"}
Matches(d, q) == {k \in 1..Len(d) : d[k].name = q}
C11_GetIndexFirstMatch ==
    \A d \in {data, server}, q \in Queries :
        LET r == get_index(d, q)
        IN  IF Matches(d, q) = {} THEN r = <<>>
            ELSE /\ r # <<>>
                 /\ r[1] + 1 \in Matches(d, q)
                 /\ \A k \in Matches(d, q) : r[1] + 1 <= k

\* a Done of a name that two tasks share has marked the first of them only
C11_Witness ==
    /\ LocalReturned({"Done"})
    /\ result = Ok
    /\ Len(data0) = 2
    /\ data0[1].name = data0[2].name
    /\ ~data0[1].done /\ ~data0[2].done
    /\ data[1].done /\ ~data[2].done

\* C12: a local Clear never fails; with doneOnly it leaves exactly the tasks
\* that were not done, unchanged and in their order, and without it it
\* leaves the empty collection.
Undone(d) == {k \in 1..Len(d) : ~d[k].done}
C12_ClearSemantics ==
    LocalReturned({"Clear"}) =>
        /\ result = Ok
        /\ IF cmd.done
           THEN /\ Len(data) = Cardinality(Undone(data0))
                /\ \A k \in Undone(data0) :
                      data[Cardinality({j \in Undone(data0) : j <= k})] = data0[k]
           ELSE data = <<>>

\* Clear --done on a done task followed by an undone one keeps the second
C12_Witness ==
    /\ LocalReturned({"Clear"})
    /\ cmd.done
    /\ Len(data0) = 2
    /\ data0[1].done /\ ~data0[2].done
    /\ data = <<data0[2]>>

\* C13: Add, Remove, Done and Undone with no name return NoTasksSpecified
\* at once on both backends: the collection is unchanged and no request
\* is sent to the server.
C13_EmptyBatchRejected ==
    (cmd.op \in TaskOps /\ cmd.tasks = <<>>) =>
        /\ pc = "done"
        /\ result = NoTasksSpecified
        /\ data = data0
        /\ server = server0
        /\ sent = <<>>

\* a remote Remove without names has returned
C13_Witness ==
    /\ CloudReturned({"Remove"})
    /\ cmd.tasks = <<>>
    /\ result = NoTasksSpecified
    /\ server # <<>>

\* C14: the existence probe for a name n answers 'exists' on a successful
\* lookup, 'does not exist' (no error) on HTTP 404, HTTPError{n, s} on any
\* other non-success status s and ConnectionError{n} on a transport failure
\* or a malformed body; every outcome is exactly one of the four.  A command
\* that returns from its validation phase because of a probe returns what
\* that probe gave.
ProbeStatuses == {400, 404, 500}
Probe(net, n) == check_exists_cloud(Client_get_index(net, server, n).api, n)
C14_ProbeMapping ==
    /\ \A n \in CloudNames :
          /\ \A net \in NetOutcomes :
                LET ex == Probe(net, n)
                IN  CASE net.t = "ok" ->
                            ex.tag = "Ok" /\ ex.err = Ok /\ ex.exists = (Matches(server, n) # {})
                      [] net.t = "http" ->
                            ex.tag = "Err" /\ ex.err = HTTPError(n, net.status)
                      [] OTHER -> ex.tag = "Err" /\ ex.err = ConnectionError(n)
          /\ \A s \in ProbeStatuses :
                LET ex == check_exists_cloud(ApiHTTPError(s), n)
                IN  IF s = 404 THEN ex.tag = "Ok" /\ ex.err = Ok /\ ~ex.exists
                    ELSE ex.tag = "Err" /\ ex.err = HTTPError(n, s)
    /\ (/\ CloudReturned(TaskOps)
        /\ result.kind # "DuplicateInput"
        /\ sent # <<>>
        /\ sent[Len(sent)].at = "validate") =>
          LET q == sent[Len(sent)]
          IN  CASE q.net = "ok" -> result.kind \in {"TaskExists", "TaskNotFound"}
                [] q.net = "http" -> result = HTTPError(q.arg, q.status)
                [] OTHER -> result = ConnectionError(q.arg)

\* a validation probe was answered with status 500 and the command returned
\* the HTTPError of that name
C14_Witness ==
    /\ CloudReturned(TaskOps)
    /\ Len(sent) = 2
    /\ sent[2].at = "validate"
    /\ sent[2].net = "http"
    /\ result = HTTPError(cmd.tasks[2], 500)

\* C15: in a remote Done or Undone, when a name has passed its validation
\* probe and a request of its mutating step (the index lookup or the call
\* with the index) is then answered 404, the command returns
\* TaskNotFound with that name.
C15_Late404IsTaskNotFound ==
    (/\ CloudReturned({"Done", "Undone"})
     /\ sent # <<>>
     /\ sent[Len(sent)].at \in {"mutate", "indexed"}
     /\ sent[Len(sent)].status = 404) =>
        result = TaskNotFound(cmd.tasks[i])

\* the name was found by the probe and by the lookup, the second client then
\* took the task away, and the call with the index was answered 404
C15_Witness ==
    /\ CloudReturned({"Done", "Undone"})
    /\ rival = "done"
    /\ Len(sent) = 3
    /\ sent[1].at = "validate" /\ sent[1].status = 200
    /\ sent[2].at = "mutate" /\ sent[2].status = 200
    /\ sent[3].at = "indexed" /\ sent[3].status = 404
    /\ result = TaskNotFound(cmd.tasks[1])

Invoked == main # "exit" \/ log # <<>>
FirstSucceeded == log # <<>> /\ log[1].res = Ok /\ log[1].op # "List"

\* C16: after a command other than List returns Ok, exactly one List is
\* executed next, on the same backend handle; after a command that returns
\* an error no List is executed; a List is never followed by a second List.
C16_FollowUpList ==
    /\ Len(log) <= 2
    /\ main = "command" => log = <<>>
    /\ main = "list" =>
          /\ Len(log) = 1 /\ FirstSucceeded
          /\ pc # "idle" => cmd.op = "List"
    /\ (main = "exit" /\ log # <<>>) =>
          IF FirstSucceeded
          THEN Len(log) = 2 /\ log[2].op = "List" /\ log[2].client = log[1].client
          ELSE Len(log) = 1

\* a remote Add succeeded and exactly one remote List followed it
C16_Witness ==
    /\ main = "exit" /\ Len(log) = 2
    /\ log[1].op = "Add" /\ log[1].res = Ok /\ log[1].client = "Some"
    /\ log[2].op = "List" /\ log[2].client = "Some"

\* C17: when the command succeeded and the follow-up List then fails, the
\* mutation stays in the backing store and the only error reported is the
\* List's error.
C17_ListFailureKeepsMutation ==
    (main = "exit" /\ Len(log) = 2 /\ log[2].res # Ok) =>
        /\ log[1].res = Ok
        /\ server = log[1].server
        /\ errs = <<log[2].res>>

\* a remote Add put its task on the server, the List after it was not
\* answered, and the task is still there
C17_Witness ==
    /\ main = "exit" /\ Len(log) = 2
    /\ log[1].op = "Add" /\ log[1].res = Ok
    /\ log[2].res.kind \in {"HTTPError", "ConnectionError"}
    /\ server # <<>> /\ server = log[1].server
    /\ errs = <<log[2].res>>

\* C18: the process is Remote exactly when a connection configuration was
\* read at startup, and the command and its follow-up List both use that
\* backend, also after a Connect or Disconnect has changed the saved
\* configuration.
C18_BackendChosenOnce ==
    Invoked =>
        /\ client = "Some" <=> (config0 # <<>> /\ config0[1].valid)
        /\ \A k \in 1..Len(log) : log[k].client = client

\* a Connect in Local mode saved a configuration and the List after it still
\* ran on the local collection
C18_Witness ==
    /\ main = "exit" /\ Len(log) = 2
    /\ log[1].op = "Connect" /\ log[1].res = Ok
    /\ log[2].op = "List" /\ log[2].client = "None"
    /\ config0 = <<>> /\ config # <<>>

\* C19: in Local mode, after an invocation whose Add, Remove, Done, Undone
\* or Clear succeeded, the task file holds the resulting collection, so the
\* next invocation loads it.
C19_LocalMutationSaved ==
    (/\ main = "exit" /\ log # <<>>
     /\ log[1].client = "None"
     /\ log[1].op \in {"Add", "Remove", "Done", "Undone", "Clear"}
     /\ log[1].res = Ok) =>
        load_tasks(file).tasks = data

\* C20: a Disconnect in Local mode returns UnlinkedError and changes neither
\* the task collection nor the saved configuration.
C20_DisconnectUnlinked ==
    LocalReturned({"Disconnect"}) =>
        /\ result = UnlinkedError
        /\ data = data0
        /\ config = config0

\* a Disconnect was executed with no client and has returned
C20_Witness ==
    /\ LocalReturned({"Disconnect"})
    /\ main = "command"
    /\ config = <<>>
    /\ result = UnlinkedError

\* C21: after a successful Connect(host, port) the next invocation starts
\* with a client for that host and port (port 6982 when the command gave
\* none), whatever the backend of the invocation that connected; after a
\* successful Disconnect the next invocation starts without a client.
C21_ConfigSwitchesNextInvocation ==
    prev # <<>> =>
        IF prev[1] = "Connect"
        THEN /\ client = "Some"
             /\ bound = <<prev[2][1],
                          IF Len(prev[2]) = 1 THEN "6982" ELSE prev[2][2]>>
        ELSE client = "None" /\ bound = <<>>

\* a Remote invocation connected to port 80 and the next one starts there
C21_Witness ==
    /\ main = "command" /\ pc = "idle"
    /\ prev = <<"Connect", <<"h", "80">>, "Some">>
    /\ client = "Some"
    /\ bound = <<"h", "80">>

\* a Local invocation connected without a port: the next one uses 6982
C21_WitnessDefaultPort ==
    /\ main = "command" /\ pc = "idle"
    /\ prev = <<"Connect", <<"h">>, "None">>
    /\ client = "Some"
    /\ bound = <<"h", "6982">>

\* a Remote invocation disconnected and the next one is Local
C21_WitnessDisconnect ==
    /\ main = "command" /\ pc = "idle"
    /\ prev = <<"Disconnect", <<>>, "Some">>
    /\ client = "None"
    /\ bound = <<>>

SentAt(at) == SelectSeq(sent, LAMBDA r : r.at = at)
InBatch == client = "Some" /\ cmd.op \in {"Add", "Remove", "Done", "Undone"}

\* C22: during a remote command at most one request is in flight, the
\* request in flight is the one of the name the handler stands at (every
\* request before it has been answered), and within the validation phase and
\* within the mutation phase the requests follow the names of the batch.
C22_RequestsSequential ==
    /\ Len(flight) <= 1
    /\ flight # <<>> =>
          /\ InBatch /\ pc \in {"validate", "mutate", "indexed"}
          /\ flight[1] = request
          /\ pc = "validate" => Len(sent) = i - 1
          /\ pc = "mutate" => Len(SentAt("mutate")) = i - 1
          /\ pc = "indexed" => Len(SentAt("indexed")) = i - 1
    /\ InBatch =>
          /\ \A k \in 1..Len(SentAt("validate")) : SentAt("validate")[k].arg = cmd.tasks[k]
          /\ \A k \in 1..Len(SentAt("mutate")) : SentAt("mutate")[k].arg = cmd.tasks[k]
          /\ Len(SentAt("indexed")) <= Len(SentAt("mutate"))
          /\ cmd.op # "Add" => Len(SentAt("mutate")) <= Len(SentAt("indexed")) + 1

\* a remote Remove of two different names: both probes and the first lookup
\* and removal have been answered, the second lookup is in flight
C22_Witness ==
    /\ InBatch /\ cmd.op = "Remove"
    /\ Len(cmd.tasks) = 2 /\ cmd.tasks[1] # cmd.tasks[2]
    /\ Len(sent) = 4
    /\ pc = "mutate" /\ i = 2
    /\ flight = << <<"index", cmd.tasks[2]>> >>

IndexedEps == {"remove", "done", "undone"}
IndexedUpTo(k) == Len(SelectSeq(SubSeq(sent, 1, k), LAMBDA r : r.ep \in IndexedEps))

\* C23: in the mutation phase of a remote Remove, Done or Undone, every
\* request that carries a position comes directly after an index lookup of
\* the mutation phase for the same name, answered with success, and carries
\* the position of that answer; this holds for the request in flight too.
C23_FreshIndexPerName ==
    InBatch =>
        /\ \A k \in 1..Len(sent) :
              sent[k].ep \in IndexedEps =>
                  /\ k > 1
                  /\ sent[k - 1].ep = "index" /\ sent[k - 1].at = "mutate"
                  /\ sent[k - 1].net = "ok" /\ sent[k - 1].status = 200
                  /\ sent[k - 1].arg = cmd.tasks[IndexedUpTo(k)]
                  /\ sent[k].arg = sent[k - 1].body
        /\ (flight # <<>> /\ flight[1][1] \in IndexedEps) =>
              /\ sent # <<>>
              /\ sent[Len(sent)].ep = "index" /\ sent[Len(sent)].at = "mutate"
              /\ sent[Len(sent)].arg = cmd.tasks[i]
              /\ flight[1][2] = sent[Len(sent)].body

\* a remote Remove of two names: the probe of the second name was answered
\* position 1, the first removal moved it, and its removal carries the
\* position 0 of the lookup made just before
C23_Witness ==
    /\ CloudReturned({"Remove"}) /\ result = Ok
    /\ Len(sent) = 6
    /\ sent[2].at = "validate" /\ sent[2].body = 1
    /\ sent[5].ep = "index" /\ sent[5].arg = cmd.tasks[2] /\ sent[5].body = 0
    /\ sent[6].ep = "remove" /\ sent[6].arg = 0

\* the one endpoint a remote List, Clear or ClearDone calls
SingleEp(c) ==
    IF c.op = "List" THEN "tasks" ELSE IF c.done THEN "cleardone" ELSE "clear"

\* C24: a remote List and a remote Clear each send exactly one request (GET
\* tasks; DELETE clear, or DELETE cleardone when doneOnly); a non-success
\* status s gives HTTPError with name "" and status s, a transport failure
\* gives ConnectionError with name "", and an answered request gives Ok.
C24_SingleRequestCommands ==
    /\ CloudReturned({"List", "Clear"}) =>
          /\ Len(sent) = 1
          /\ sent[1].ep = SingleEp(cmd)
          /\ result = CASE sent[1].net = "ok" -> Ok
                         [] sent[1].net = "http" -> HTTPError("", sent[1].status)
                         [] OTHER -> ConnectionError("")
    /\ \A s \in ProbeStatuses : api_error_unnamed(ApiHTTPError(s)) = HTTPError("", s)
    /\ api_error_unnamed(ApiRequestError) = ConnectionError("")

\* a remote Clear of the done tasks was refused with status 500
C24_Witness ==
    /\ CloudReturned({"Clear"}) /\ cmd.done
    /\ Len(sent) = 1 /\ sent[1].ep = "cleardone" /\ sent[1].net = "http"
    /\ result = HTTPError("", 500)
    /\ server = server0

ClearDoneOnly == Cmd("Clear", <<>>, TRUE)

\* C25: ClearDone behaves as Clear with doneOnly = true: on the local
\* collection it returns the same result and leaves the same list from every
\* store, and on the server it sends the same request, leaves the same list
\* and returns the same result for the same answer of the network.
C25_ClearDoneIsAlias ==
    /\ \A d \in Stores : handle_clear_done(d) = handle_clear(TRUE, d)
    /\ LocalReturned({"ClearDone"}) =>
          [data |-> data, res |-> result] = execute_local(ClearDoneOnly, data0)
    /\ CloudReturned({"ClearDone"}) =>
          /\ Len(sent) = 1
          /\ sent[1].ep = SingleEp(ClearDoneOnly)
          /\ \E net \in NetOutcomes :
                LET rt == Client_clear_done(net, server0)
                IN  /\ net.t = sent[1].net
                    /\ server = rt.server
                    /\ result = IF rt.api.tag = "Ok" THEN Ok
                                ELSE api_error_unnamed(rt.api)

\* a local ClearDone on a done and an undone task kept the undone one
C25_Witness ==
    /\ LocalReturned({"ClearDone"})
    /\ Len(data0) = 2 /\ data0[1].done /\ ~data0[2].done
    /\ data = <<data0[2]>>
    /\ result = Ok

\* a remote ClearDone removed the done task from the server
C25_WitnessCloud ==
    /\ CloudReturned({"ClearDone"})
    /\ Len(server0) = 2 /\ server0[1].done /\ ~server0[2].done
    /\ server = <<server0[2]>>
    /\ result = Ok

\* C26: with one client, no step of an Add, Remove, Done, Undone or Clear,
\* successful or failing, on either backend, takes a collection whose names
\* are pairwise distinct to one with a repeated name; so a session that
\* starts from distinct names keeps them distinct after any sequence of
\* commands.
C26_UniquenessPreserved ==
    [][(UniqueNames(data) /\ UniqueNames(server)) =>
           (UniqueNames(data') /\ UniqueNames(server'))]_vars

\* a local Add of two names to a collection that held another one
C26_Witness ==
    /\ LocalReturned({"Add"}) /\ result = Ok
    /\ data0 # <<>> /\ UniqueNames(data0)
    /\ Len(cmd.tasks) = 2
    /\ Len(data) = Len(data0) + 2
    /\ UniqueNames(data)

\* a remote Add was refused because its name was on the server already
C26_WitnessRefused ==
    /\ CloudReturned({"Add"}) /\ result.kind = "TaskExists"
    /\ UniqueNames(server0) /\ server = server0

\* what a List that has returned Ok has printed
Shown == IF client = "None" THEN data ELSE sent[1].body

\* C27: from an empty store, for any name n: Add([n]) returns Ok and the
\* List after it shows exactly [n] undone; Done([n]) returns Ok and the List
\* after it shows n done; Clear(doneOnly) returns Ok and the List after it
\* shows nothing.  On the server this is the session in which every request
\* is answered.
C27_Workflow ==
    (scene # <<>> /\ Returned /\ faults = 0) =>
        /\ result = Ok
        /\ scene[1] = 1 => Shown = <<Task(scene[2], FALSE)>>
        /\ scene[1] = 3 => Shown = <<Task(scene[2], TRUE)>>
        /\ scene[1] = 5 => Shown = <<>>

\* the whole script has run on the server and its last List has shown nothing
C27_Witness ==
    /\ scene # <<>> /\ scene[1] = 5
    /\ CloudReturned({"List"})
    /\ result = Ok
    /\ Shown = <<>> /\ server = <<>>

\* the local session stands after its second List
C27_WitnessLocal ==
    /\ scene # <<>> /\ scene[1] = 3
    /\ LocalReturned({"List"})
    /\ Shown = <<Task(scene[2], TRUE)>>

ErrorKinds ==
    {"NoTasksSpecified", "TaskExists", "TaskNotFound", "DuplicateInput", "DataError",
     "HTTPError", "ConnectionError", "UnlinkedError"}

\* the requests of a command so far, answered or in flight, stay within
\* 3n for a batch of n names and within one for List and Clear; a command
\* has no outcome before it ends and one of the closed set when it has ended
C28_Bounded ==
    /\ InBatch => Len(sent) + Len(flight) <= 3 * Len(cmd.tasks)
    /\ ~InBatch => Len(sent) + Len(flight) <= 1
    /\ ~Returned => result = NoResult
    /\ Returned => (result = Ok \/ result.kind \in ErrorKinds)

\* C28: every command ends, after at most 3n requests for a batch of n
\* names and one request for List or Clear, whatever the server answers and
\* whether or not the transport fails, with Ok or with one error of the
\* closed set.
C28_Terminates ==
    /\ []C28_Bounded
    /\ (pc # "idle") ~> (pc = "done")

\* a remote Done of two names used all six requests and the last answer
\* was lost
C28_Witness ==
    /\ CloudReturned({"Done"})
    /\ Len(cmd.tasks) = 2
    /\ Len(sent) = 6 /\ sent[6].net = "lost"
    /\ result = ConnectionError(cmd.tasks[2])

\* the list t is the list s without the task at position k (counted from 0)
Without(s, t, k) ==
    /\ Len(t) = Len(s) - 1
    /\ \A j \in 1..Len(t) : t[j] = IF j <= k THEN s[j] ELSE s[j + 1]

\* the list t is the list s with the flag of the task at position k set
Flagged(s, t, k, done) ==
    /\ Len(t) = Len(s)
    /\ \A j \in 1..Len(s) :
          t[j] = IF j = k + 1 THEN Task(s[j].name, done) ELSE s[j]

\* C29: the server's remove, done and undone, called with a position that is
\* the length of the list or more, answer 404 and leave the list as it is;
\* called with a position inside the list they answer 200 and remove, or set
\* the flag of, the task at that position and no other.  Checked on every
\* list of the model and on the list the server holds.
C29_IndexEndpoints ==
    \A s \in CloudStores \cup {server} : \A k \in 0..(Len(s) + 1) :
        LET rm == srv_remove_task(s, k)
            dn == srv_done_task(s, k)
            un == srv_undone_task(s, k)
        IN  IF k >= Len(s)
            THEN /\ rm.status = 404 /\ rm.tasks = s
                 /\ dn.status = 404 /\ dn.tasks = s
                 /\ un.status = 404 /\ un.tasks = s
            ELSE /\ rm.status = 200 /\ Without(s, rm.tasks, k)
                 /\ dn.status = 200 /\ Flagged(s, dn.tasks, k, TRUE)
                 /\ un.status = 200 /\ Flagged(s, un.tasks, k, FALSE)

\* the position a remote Remove had looked up was outside the list when the
\* server handled the removal: the server answered 404 and kept its list
C29_Witness ==
    /\ CloudReturned({"Remove"})
    /\ sent # <<>>
    /\ sent[Len(sent)].ep = "remove" /\ sent[Len(sent)].net = "ok"
    /\ sent[Len(sent)].arg >= Len(server)
    /\ sent[Len(sent)].status = 404

Holds(s, n) == \E j \in 1..Len(s) : s[j].name = n
FirstOf(s, n) == CHOOSE j \in 1..Len(s) : s[j].name = n /\ \A h \in 1..(j - 1) : s[h].name # n
Answered == CHOOSE net \in NetOutcomes : net.t = "ok"

\* C30: when the request is answered by the server's index endpoint, the
\* probe for a name says 'exists' exactly when the server's list holds a task
\* of that name: the endpoint answers 200 with the first matching position
\* when there is one and 404 with 0 when there is none, and leaves the list
\* alone.  Checked on every list the server holds (a session starts from
\* any list of the model) and on every answered probe of a validation phase.
C30_ProbeExact ==
    /\ \A s \in {server, server0} : \A n \in Queries :
          LET r == srv_get_index(s, n)
              p == check_exists_cloud(Client_get_index(Answered, s, n).api, n)
          IN  /\ r.tasks = s
              /\ IF Holds(s, n)
                 THEN r.status = 200 /\ r.body = FirstOf(s, n) - 1
                 ELSE r.status = 404 /\ r.body = 0
              /\ p.tag = "Ok" /\ (p.exists <=> Holds(s, n))
    /\ (InBatch /\ rival = "none") =>
          \A k \in 1..Len(SentAt("validate")) :
              SentAt("validate")[k].net = "ok" =>
                  (SentAt("validate")[k].status = 200 <=> Holds(server0, cmd.tasks[k]))

\* a remote Remove of two names: the probe of the first, which the server
\* holds, was answered 200, and the probe of the second, which it does not
\* hold, 404
C30_Witness ==
    /\ CloudReturned({"Remove"})
    /\ Len(cmd.tasks) = 2 /\ Len(sent) = 2
    /\ sent[1].net = "ok" /\ sent[1].status = 200
    /\ sent[2].net = "ok" /\ sent[2].status = 404
    /\ Holds(server0, cmd.tasks[1]) /\ ~Holds(server0, cmd.tasks[2])
    /\ result = TaskNotFound(cmd.tasks[2])

\* C31: loading when there is no task file returns Ok and leaves the empty
\* list, so that the first command of an installation without a file is
\* executed on an empty collection.
C31_MissingFileIsEmpty ==
    /\ load_tasks(<<>>) = [tasks |-> <<>>, outcome |-> "Ok"]
    /\ (file = <<>> /\ main = "command") =>
          /\ pc = "idle" => data = <<>>
          /\ (Returned /\ client = "None") => data0 = <<>>

\* without a task file a local Add was executed on the empty collection
C31_Witness ==
    /\ file = <<>> /\ main = "command"
    /\ LocalReturned({"Add"})
    /\ data0 = <<>>
    /\ result = Ok /\ Len(data) = 1

\* C32: in a remote Remove, when a name has passed its validation probe and
\* a request of its mutating step (the index lookup or the DELETE with the
\* index) is then answered 404, the command returns TaskNotFound with that
\* name, as Done and Undone do.
C32_Late404RemoveIsTaskNotFound ==
    (/\ CloudReturned({"Remove"})
     /\ sent # <<>>
     /\ sent[Len(sent)].at \in {"mutate", "indexed"}
     /\ sent[Len(sent)].status = 404) =>
        result = TaskNotFound(cmd.tasks[i])

\* the name at position k of a batch already occurs earlier in the batch
Repeats(tasks, k) == \E j \in 1..(k - 1) : tasks[j] = tasks[k]

\* position k fails one of the two checks against store s
Offends(tasks, s, adding, k) == Repeats(tasks, k) \/ (Holds(s, tasks[k]) = adding)

HasOffender(tasks, s, adding) == \E k \in 1..Len(tasks) : Offends(tasks, s, adding, k)

FirstOffender(tasks, s, adding) ==
    CHOOSE k \in 1..Len(tasks) :
        /\ Offends(tasks, s, adding, k)
        /\ \A j \in 1..(k - 1) : ~Offends(tasks, s, adding, j)

\* the error of position k: repetition is looked at before existence
OffenceOf(tasks, adding, k) ==
    IF Repeats(tasks, k) THEN DuplicateInput(tasks[k])
    ELSE IF adding THEN TaskExists(tasks[k])
    ELSE TaskNotFound(tasks[k])

C34_DoneUndoneFrame ==
    LocalReturned({"Done", "Undone"}) =>
        /\ Len(data) = Len(data0)
        /\ \A k \in 1..Len(data0) :
              /\ data[k].name = data0[k].name
              /\ (data0[k].name \notin Range(cmd.tasks)) => data[k].done = data0[k].done

\* a successful marking that changes a flag beside a task that is not named
C34_Witness ==
    /\ LocalReturned({"Done", "Undone"})
    /\ result = Ok
    /\ data # data0
    /\ \E k \in 1..Len(data0) : data0[k].name \notin Range(cmd.tasks)


\* C35: within an invocation the two backends are isolated.  In Remote mode
\* the in-memory collection stays what load_tasks made of the task file,
\* whatever command runs; in Local mode no request is sent or in flight, and
\* the server's list is at return what it was at the call.
C35_BackendsIsolated ==
    (main \in {"command", "list"}) =>
        /\ (client = "Some") => data = load_tasks(file).tasks
        /\ (client = "None") =>
              /\ sent = <<>>
              /\ flight = <<>>
              /\ Returned => server = server0

\* a local command that changed the collection while the server holds tasks
C35_Witness ==
    /\ main = "command"
    /\ LocalReturned(TaskOps)
    /\ result = Ok
    /\ data # data0
    /\ server # <<>>

\* a remote command that changed the server while the collection holds tasks
C35_WitnessRemote ==
    /\ main = "command"
    /\ CloudReturned(TaskOps)
    /\ result = Ok
    /\ server # server0
    /\ data # <<>>


\* the orders in which the names of a duplicate-free batch can be given
Perms(t) == {p \in SeqsOfLen(Range(t), Len(t)) : ~HasRepeat(p)}

\* C36: on a store with unique names, a local Add of a non-empty batch without
\* repetition, none of whose names is in the store, returns Ok, and a Remove
\* of the same names in any order then returns Ok and gives back the store
\* exactly as it was before the Add, content and order.
C36_AddRemoveRoundTrip ==
    ( /\ LocalReturned({"Add"})
      /\ Len(cmd.tasks) > 0
      /\ UniqueNames(data0)
      /\ ~HasRepeat(cmd.tasks)
      /\ \A k \in 1..Len(cmd.tasks) : ~Holds(data0, cmd.tasks[k]) )
    => /\ result = Ok
       /\ \A p \in Perms(cmd.tasks) : handle_remove(p, data) = [data |-> data0, res |-> Ok]

\* two names added to a store that holds a task, to be removed in two orders
C36_Witness ==
    /\ LocalReturned({"Add"})
    /\ result = Ok
    /\ Len(cmd.tasks) = 2
    /\ Len(data0) = 1
    /\ Len(data) = 3
    /\ Perms(cmd.tasks) = {cmd.tasks, <<cmd.tasks[2], cmd.tasks[1]>>}
    /\ handle_remove(<<cmd.tasks[2], cmd.tasks[1]>>, data).data = data0


\* C37: when a connection configuration file exists at startup, readable or
\* not, a Disconnect either removes it and returns Ok or returns DataError;
\* it does not return UnlinkedError with the file still there.
C37_UnlinkedOnlyWithoutFile ==
    (main = "command" /\ Returned /\ cmd.op = "Disconnect" /\ config0 # <<>>) =>
        \/ result = Ok /\ config = <<>>
        \/ result.kind = "DataError"


\* the step in which the server has served a request of the command that
\* carries a position
IndexedServed ==
    /\ pc = "indexed"
    /\ Len(sent') = Len(sent) + 1
    /\ sent'[Len(sent')].ep \in IndexedEps

\* list t is list s with at most one task removed or marked, a task named n
ChangeIsOf(s, t, n) ==
    \/ t = s
    \/ \E k \in 1..Len(s) :
          /\ s[k].name = n
          /\ \/ t = vec_remove(s, k - 1)
             \/ /\ Len(t) = Len(s)
                /\ t[k].name = n
                /\ \A j \in 1..Len(s) : j # k => t[j] = s[j]

\* C38: in a remote Remove, Done or Undone of name n, the task that the
\* server removes or marks on the request that carries the position has name
\* n, also when a second client's mutating request is served between the
\* index lookup and that request.
C38_OnlyNamedTaskTouched ==
    [][IndexedServed =>
          /\ ChangeIsOf(server, server', cmd.tasks[i])
          /\ (sent'[Len(sent')].status = OK) => server[index[1] + 1].name = cmd.tasks[i]]_vars


\* C39: when two Remote-mode clients each run an Add with the same new name
\* against one server whose names are distinct, the server's list never
\* holds two tasks of that name, however their requests interleave.
C39_UniqueUnderTwoAdds ==
    (cmd.op = "Add" /\ pc # "idle" /\ rival = "added" /\ UniqueNames(server0))
        => UniqueNames(server)


====
